---------------------------- MODULE Spec2Model ----------------------------
(***************************************************************************)
(* Lumina: the streaming playback engine of src/App.tsx.                   *)
(*                                                                         *)
(* The App component keeps its playback state in React state and refs and  *)
(* runs on the browser's single thread.  One action of this module is one  *)
(* macrotask of the event loop: a user event handler, a timer, the         *)
(* settling of a network request, or the delivery of a source's `ended`    *)
(* event, each together with the microtasks it queues.  decodeAudioData    *)
(* (src/components/SettingsModal.tsx:98) contains no await of its own, so  *)
(* `await decodeAudioData(...)` resumes in a microtask of the same task    *)
(* and is part of the step that received the synthesized payload.          *)
(* A React state variable and the ref its effect syncs (textChunks,        *)
(* audioBuffers, selectedVoice, speed) are one variable here.  The         *)
(* AudioContext is running (playQueue's `await ctx.resume()` is not taken).*)
(*                                                                         *)
(* Time.  ctx.currentTime is not stored: nextStartTime and chunkStartTime  *)
(* hold the ref's value minus ctx.currentTime, and Tick moves the clock by *)
(* one unit.  A buffer position is measured in the units 1x playback       *)
(* covers in one tick.                                                     *)
(***************************************************************************)
EXTENDS Integers, Sequences, FiniteSets, Bags, TLC

\* ------------------------------------------------------------- bounds
MaxChunks == 2          \* longest chunk sequence a load produces
NumVoices == 2          \* voices of VOICES that are modelled
MaxOps == 3             \* user operations in one behaviour
HalfDuration == 3       \* half of a decoded buffer's duration, in positions
MaxPending == 1         \* concurrent extractTextFromUrl calls
LongChunks == 5         \* longest chunk sequence of a long text
MaxText == 6            \* longest text given to chunkText, in characters
MaxLength == 2          \* chunkText's maxLength (1200 characters), scaled
MaxCalls == 2           \* applications of a pure function to one argument
MaxSamples == 2         \* longest PCM payload given to decodeAudioData, in samples

\* -------------------------------------------------- program constants
WINDOW == 3             \* prefetchWindow's windowSize
LEAD == 1               \* playQueue's scheduling lead (0.1 s), in ticks
SAMPLE_RATE == 24000    \* constants.ts
PAD == 64               \* the base64 padding character "=", after the sextets 0..63

DURATION == 2 * HalfDuration
Voices == 1..NumVoices
Speeds == {1, 2}        \* 1.0x and 2.0x of PLAYBACK_SPEEDS
Modes == {"url", "text"}

NoBuf == [src |-> 0, idx |-> 0, voice |-> 0]
NoSource == [node |-> 0, buf |-> NoBuf]
NoError == [kind |-> "none", para |-> 0]
NoChunks == [src |-> 0, len |-> 0]
NoPause == [idx |-> -1, pos |-> 0]
NoSettle == [i |-> -1, how |-> "none"]
NoResult == [kind |-> "none"]
NoPcm == [samples |-> <<>>, extra |-> <<>>]

Max(a, b) == IF a >= b THEN a ELSE b
Min(a, b) == IF a <= b THEN a ELSE b

VARIABLES
  \* React state
  status, currentChunkIndex, error, selectedVoice, speed, mode,
  isLoadingContent, textChunks, audioBuffers,
  \* refs
  playbackSessionId, activeSource, nextStartTime, chunkStartTime,
  chunkStartOffset, chunkPlaybackRate, resumeOffset, processingChunks,
  \* the asynchronous work in flight
  loops,       \* the playQueue invocations that are suspended at an await
  timers,      \* handleParagraphClick's pending setTimeout callbacks, in order
  requests,    \* prefetchWindow's generateSpeechChunk calls in flight (a bag)
  fetches,     \* handleFetchContent's extractTextFromUrl calls in flight
  srcCount,    \* number of texts loaded so far: names the text of a chunk
  \* history, for stating the properties
  lastOp,      \* the last user operation
  started,     \* the source.start() calls since the last user operation
  pausedAt,    \* what was sounding, and where, when pause was last pressed
  lastSettle,  \* the prefetch request that settled last, and what became of it
  ops,         \* the number of user operations so far
  \* the pure functions: arguments, results, and the number of applications
  text,        \* chunkText's argument
  chunks,      \* chunkText's result
  pcm,         \* the samples the speech service encoded, and a stray byte if any
  base64Data,  \* decodeAudioData's payload
  sampleRate,  \* decodeAudioData's sampleRate
  decoded,     \* decodeAudioData's result: a buffer, or the error it threw
  calls

appVars == <<status, currentChunkIndex, error, selectedVoice, speed, mode,
          isLoadingContent, textChunks, audioBuffers, playbackSessionId,
          activeSource, nextStartTime, chunkStartTime, chunkStartOffset,
          chunkPlaybackRate, resumeOffset, processingChunks, loops, timers,
          requests, fetches, srcCount, lastOp, started, pausedAt,
          lastSettle, ops>>

pureVars == <<text, chunks, pcm, base64Data, sampleRate, decoded, calls>>

vars == <<appVars, pureVars>>

\* The whole state as one record, so that a handler's statements compose.
Cur ==
  [status |-> status, currentChunkIndex |-> currentChunkIndex, error |-> error,
   selectedVoice |-> selectedVoice, speed |-> speed, mode |-> mode,
   isLoadingContent |-> isLoadingContent, textChunks |-> textChunks,
   audioBuffers |-> audioBuffers, playbackSessionId |-> playbackSessionId,
   activeSource |-> activeSource, nextStartTime |-> nextStartTime,
   chunkStartTime |-> chunkStartTime, chunkStartOffset |-> chunkStartOffset,
   chunkPlaybackRate |-> chunkPlaybackRate, resumeOffset |-> resumeOffset,
   processingChunks |-> processingChunks, loops |-> loops, timers |-> timers,
   requests |-> requests, fetches |-> fetches, srcCount |-> srcCount,
   lastOp |-> lastOp, started |-> started, pausedAt |-> pausedAt,
   lastSettle |-> lastSettle, ops |-> ops]

Commit(e) ==
  \E x \in {e} :
    /\ status' = x.status
    /\ currentChunkIndex' = x.currentChunkIndex
    /\ error' = x.error
    /\ selectedVoice' = x.selectedVoice
    /\ speed' = x.speed
    /\ mode' = x.mode
    /\ isLoadingContent' = x.isLoadingContent
    /\ textChunks' = x.textChunks
    /\ audioBuffers' = x.audioBuffers
    /\ playbackSessionId' = x.playbackSessionId
    /\ activeSource' = x.activeSource
    /\ nextStartTime' = x.nextStartTime
    /\ chunkStartTime' = x.chunkStartTime
    /\ chunkStartOffset' = x.chunkStartOffset
    /\ chunkPlaybackRate' = x.chunkPlaybackRate
    /\ resumeOffset' = x.resumeOffset
    /\ processingChunks' = x.processingChunks
    /\ loops' = x.loops
    /\ timers' = x.timers
    /\ requests' = x.requests
    /\ fetches' = x.fetches
    /\ srcCount' = x.srcCount
    /\ lastOp' = x.lastOp
    /\ started' = x.started
    /\ pausedAt' = x.pausedAt
    /\ lastSettle' = x.lastSettle
    /\ ops' = x.ops
    /\ UNCHANGED pureVars

\* ------------------------------------------------------------ helpers
\* audioBuffers[i] of a JavaScript array: undefined and null both read absent.
At(bufs, i) == IF i >= 0 /\ i < Len(bufs) THEN bufs[i + 1] ELSE NoBuf

\* new Array(n).fill(null)
Nulls(n) == [k \in 1..n |-> NoBuf]

\* newBuffers[i] = buffer on a copy of the array (it grows when i is past the end)
SetAt(bufs, i, b) ==
  [k \in 1..Max(Len(bufs), i + 1) |->
     IF k = i + 1 THEN b ELSE IF k <= Len(bufs) THEN bufs[k] ELSE NoBuf]

\* A decoded buffer: which text, which chunk and which voice it was made from.
Buffer(src, i, voice) == [src |-> src, idx |-> i, voice |-> voice]

\* A suspended playQueue invocation.  pc = "synth": at the await of
\* generateSpeechChunk (line 335).  pc = "play": at the await of playBuffer
\* (line 356), its source node being the fields buf..ended: startIn ticks until
\* the scheduled start, pos the position the node has reached, ended whether the
\* node has stopped (its `ended` event is then waiting to be delivered),
\* connected whether the node is connected to ctx.destination (line 398).
SynthLoop(sid, s, o, i, voice, src) ==
  [pc |-> "synth", sid |-> sid, startIndex |-> s, startOffset |-> o, i |-> i,
   voiceToUse |-> voice, textSrc |-> src,
   buf |-> NoBuf, startIn |-> 0, pos |-> 0, rate |-> 0, ended |-> FALSE,
   connected |-> FALSE]

PlayLoop(sid, s, o, i, buf, startIn, pos, rate) ==
  [pc |-> "play", sid |-> sid, startIndex |-> s, startOffset |-> o, i |-> i,
   voiceToUse |-> 0, textSrc |-> 0,
   buf |-> buf, startIn |-> startIn, pos |-> pos, rate |-> rate, ended |-> FALSE,
   connected |-> TRUE]

Without(f, l) == [k \in (DOMAIN f) \ {l} |-> f[k]]
With(f, l, v) == [k \in (DOMAIN f) \cup {l} |-> IF k = l THEN v ELSE f[k]]
FreshLoop(f) == CHOOSE k \in 1..(Cardinality(DOMAIN f) + 1) : k \notin DOMAIN f

\* The nodes that are scheduled or emitting.
Live(ls) == {l \in DOMAIN ls : ls[l].pc = "play" /\ ~ls[l].ended}


\* -------------------------------------------------------- stopPlayback
\* A stop that silences the node and queues no `ended` event.
StopNode_NoEvent(ls, source) ==
  IF source.node \in DOMAIN ls /\ ls[source.node].pc = "play"
  THEN [ls EXCEPT ![source.node].rate = 0, ![source.node].startIn = 0]
  ELSE ls

\* source.stop(): the node emits nothing more and its `ended` event is queued.
StopNode(ls, source) ==
  IF source.node \in DOMAIN ls /\ ls[source.node].pc = "play"
  THEN [ls EXCEPT ![source.node].ended = TRUE]
  ELSE ls

\* A stopPlayback that leaves the stopped source connected.
Disconnect_Skipped(ls, source) == ls

\* source.disconnect() (line 212)
Disconnect(ls, source) ==
  IF source.node \in DOMAIN ls /\ ls[source.node].pc = "play"
  THEN [ls EXCEPT ![source.node].connected = FALSE]
  ELSE ls

\* lines 182-203: the offset a later resume starts from
StopOffset(e, pauseOnly) ==
  IF pauseOnly /\ e.activeSource # NoSource
  THEN LET elapsed == Max(0, 0 - e.chunkStartTime)
           rate == e.chunkPlaybackRate
           nextOffset == e.chunkStartOffset + elapsed * rate
       IN  Min(Max(nextOffset, 0), DURATION)
  ELSE 0

\* A stopPlayback that leaves the session id alone.
stopPlayback_NoBump(e, pauseOnly) ==
  LET e1 == [e EXCEPT !.resumeOffset = StopOffset(e, pauseOnly),
                      !.chunkStartOffset = IF pauseOnly THEN @ ELSE 0,
                      !.chunkStartTime = IF pauseOnly THEN @ ELSE 0 - DURATION,
                      !.loops = Disconnect(StopNode(@, e.activeSource),
                                           e.activeSource),
                      !.activeSource = NoSource]
  IN  IF pauseOnly
      THEN [e1 EXCEPT !.status = "paused"]
      ELSE [e1 EXCEPT !.status = "idle",
                      !.currentChunkIndex = -1,
                      !.nextStartTime = -1]

\* lines 181-225
stopPlayback(e, pauseOnly) ==
  LET e1 == [e EXCEPT !.resumeOffset = StopOffset(e, pauseOnly),
                      !.chunkStartOffset = IF pauseOnly THEN @ ELSE 0,
                      !.chunkStartTime = IF pauseOnly THEN @ ELSE 0 - DURATION,
                      !.playbackSessionId = @ + 1,
                      !.loops = Disconnect(StopNode(@, e.activeSource),
                                           e.activeSource),
                      !.activeSource = NoSource]
  IN  IF pauseOnly
      THEN [e1 EXCEPT !.status = "paused"]
      ELSE [e1 EXCEPT !.status = "idle",
                      !.currentChunkIndex = -1,
                      !.nextStartTime = -1]

\* ------------------------------------------------------ prefetchWindow
\* A window one index short.
PrefetchTodo_Short(e, startIndex) ==
  {i \in startIndex..(startIndex + WINDOW - 2) :
     /\ i < e.textChunks.len
     /\ At(e.audioBuffers, i) = NoBuf
     /\ i \notin e.processingChunks}

\* lines 234-240: the indices of the window a request is issued for
PrefetchTodo(e, startIndex) ==
  {i \in startIndex..(startIndex + WINDOW - 1) :
     /\ i < e.textChunks.len
     /\ At(e.audioBuffers, i) = NoBuf
     /\ i \notin e.processingChunks}

\* lines 229-263, up to the issue of the requests
prefetchWindow(e, startIndex) ==
  LET todo == PrefetchTodo(e, startIndex)
      issued == {[i |-> i, voice |-> e.selectedVoice, src |-> e.textChunks.src] :
                   i \in todo}
  IN  [e EXCEPT !.processingChunks = @ \cup todo,
                !.requests = @ (+) SetToBag(issued)]

\* A .then that stores whatever the voice selected by now.
PrefetchStore_AnyVoice(e, r) ==
  IF Len(e.audioBuffers) > r.i
  THEN [e EXCEPT !.audioBuffers = SetAt(@, r.i, Buffer(r.src, r.i, r.voice))]
  ELSE e

\* lines 243-256: the .then of a prefetch request whose synthesis succeeded
PrefetchStore(e, r) ==
  IF e.selectedVoice # r.voice THEN e
  ELSE IF Len(e.audioBuffers) > r.i
       THEN [e EXCEPT !.audioBuffers = SetAt(@, r.i, Buffer(r.src, r.i, r.voice))]
       ELSE e

\* What becomes of a settled prefetch request: its buffer is stored, or dropped
\* for the voice (line 245) or for the length of the cache (line 252), or the
\* request failed (line 258).
SettleKind(e, r, ok) ==
  IF ~ok THEN "failed"
  ELSE IF e.selectedVoice # r.voice THEN "voice"
  ELSE IF Len(e.audioBuffers) > r.i THEN "stored"
  ELSE "length"

\* A prefetch whose failure is handled as the active path handles its own.
prefetchSettled_Loud(e, r, ok) ==
  LET e1 == IF ok THEN PrefetchStore(e, r)
            ELSE stopPlayback([e EXCEPT !.error = [kind |-> "playback",
                                                   para |-> r.i + 1]], TRUE)
  IN  [e1 EXCEPT !.requests = @ (-) SetToBag({r}),
                 !.processingChunks = @ \ {r.i}]

\* A settling whose failure leaves the in-flight marker behind.
prefetchSettled_KeepMarker(e, r, ok) ==
  LET e1 == IF ok THEN PrefetchStore(e, r) ELSE e
  IN  [e1 EXCEPT !.requests = @ (-) SetToBag({r}),
                 !.processingChunks = IF ok THEN @ \ {r.i} ELSE @,
                 !.lastSettle = [i |-> r.i, how |-> SettleKind(e, r, ok)]]

\* lines 242-261: a prefetch request settles; a failure (of the synthesis, or of
\* the decode in .then) is caught and logged; .finally removes the marker.
prefetchSettled(e, r, ok) ==
  LET e1 == IF ok THEN PrefetchStore(e, r) ELSE e
  IN  [e1 EXCEPT !.requests = @ (-) SetToBag({r}),
                 !.processingChunks = @ \ {r.i},
                 !.lastSettle = [i |-> r.i, how |-> SettleKind(e, r, ok)]]

\* ---------------------------------------------------------- playBuffer
\* A playBuffer that leaves the existing source alone.
stopExisting_Skipped(e) == e

\* lines 389-393: stop (and do not disconnect) the source the ref holds
stopExisting(e) ==
  [e EXCEPT !.loops = StopNode(@, e.activeSource),
            !.activeSource = NoSource]

\* A playBuffer that starts every source at the cursor, wherever it is.
playBuffer_AtCursor(e, l, lp, i, buffer, startOffset) ==
  IF e.playbackSessionId # lp.sid THEN [e |-> e, resolved |-> TRUE]
  ELSE
    LET e1 == stopExisting(e)
        clampedOffset == Min(Max(startOffset, 0), DURATION)
        remainingDuration == Max(0, DURATION - clampedOffset) \div e.speed
        startAt == e.nextStartTime
        e2 == [e1 EXCEPT !.chunkStartOffset = clampedOffset,
                         !.chunkPlaybackRate = e.speed,
                         !.nextStartTime = startAt + remainingDuration]
    IN  IF remainingDuration = 0
        THEN [e |-> [e2 EXCEPT !.chunkStartTime = 0], resolved |-> TRUE]
        ELSE [e |-> [e2 EXCEPT
                       !.chunkStartTime = startAt,
                       !.activeSource = [node |-> l, buf |-> buffer],
                       !.loops = With(@, l, PlayLoop(lp.sid, lp.startIndex,
                                        lp.startOffset, i, buffer, startAt,
                                        clampedOffset, e.speed)),
                       !.started = Append(@, [idx |-> i, off |-> clampedOffset])],
              resolved |-> FALSE]

\* lines 379-433.  resolved: the promise resolved at once (no source started).
playBuffer(e, l, lp, i, buffer, startOffset) ==
  IF e.playbackSessionId # lp.sid THEN [e |-> e, resolved |-> TRUE]
  ELSE
    LET e1 == stopExisting(e)
        clampedOffset == Min(Max(startOffset, 0), DURATION)
        remainingDuration == Max(0, DURATION - clampedOffset) \div e.speed
        startAt == IF e.nextStartTime < 0 THEN 0 ELSE e.nextStartTime
        e2 == [e1 EXCEPT !.chunkStartOffset = clampedOffset,
                         !.chunkPlaybackRate = e.speed,
                         !.nextStartTime = startAt + remainingDuration]
    IN  IF remainingDuration = 0
        THEN [e |-> [e2 EXCEPT !.chunkStartTime = 0], resolved |-> TRUE]
        ELSE [e |-> [e2 EXCEPT
                       !.chunkStartTime = startAt,
                       !.activeSource = [node |-> l, buf |-> buffer],
                       !.loops = With(@, l, PlayLoop(lp.sid, lp.startIndex,
                                        lp.startOffset, i, buffer, startAt,
                                        clampedOffset, e.speed)),
                       !.started = Append(@, [idx |-> i, off |-> clampedOffset])],
              resolved |-> FALSE]

\* ----------------------------------------------------------- playQueue
\* lines 372-377: after the for loop
finishLoop(e, l, lp) ==
  LET e1 == [e EXCEPT !.loops = Without(@, l)]
  IN  IF e1.playbackSessionId = lp.sid
      THEN [e1 EXCEPT !.status = "idle", !.currentChunkIndex = -1]
      ELSE e1

\* A catch that reports the failure of a superseded loop as well.
catchError_Unfenced(e, l, lp, i) ==
  finishLoop(stopPlayback([e EXCEPT !.error = [kind |-> "playback", para |-> i + 1]],
                          TRUE),
             l, lp)

\* lines 361-369: the catch of an iteration, and the break
catchError(e, l, lp, i) ==
  LET e1 == IF e.playbackSessionId = lp.sid
            THEN stopPlayback([e EXCEPT !.error = [kind |-> "playback", para |-> i + 1]],
                              TRUE)
            ELSE e
  IN  finishLoop(e1, l, lp)

\* lines 357-359: after the await of playBuffer
AfterPlay(e, lp, i) ==
  IF i = lp.startIndex THEN [e EXCEPT !.resumeOffset = 0] ELSE e

\* An offset that is applied to every buffer of the loop.
OffsetFor_Every(lp, i) == lp.startOffset

\* line 355: const offset = i === startIndex ? startOffset : 0
OffsetFor(lp, i) == IF i = lp.startIndex THEN lp.startOffset ELSE 0

RECURSIVE runLoop(_, _, _, _)
RECURSIVE playStep(_, _, _, _, _)

\* lines 351-359: the buffer of iteration i is at hand
playStep(e, l, lp, i, buffer) ==
  IF e.playbackSessionId # lp.sid THEN [e EXCEPT !.loops = Without(@, l)]
  ELSE LET offset == OffsetFor(lp, i)
           r == playBuffer(e, l, lp, i, buffer, offset)
       IN  IF r.resolved THEN runLoop(AfterPlay(r.e, lp, i), l, lp, i + 1)
           ELSE r.e

\* lines 316-336: the for loop from the top of iteration i, to its next await
runLoop(e, l, lp, i) ==
  IF i >= e.textChunks.len THEN finishLoop(e, l, lp)
  ELSE IF e.playbackSessionId # lp.sid THEN [e EXCEPT !.loops = Without(@, l)]
  ELSE
    LET e1 == prefetchWindow([e EXCEPT !.currentChunkIndex = i], i + 1)
        buffer == At(e1.audioBuffers, i)
    IN  IF buffer = NoBuf
        THEN [e1 EXCEPT !.processingChunks = @ \cup {i},
                        !.loops = With(@, l, SynthLoop(lp.sid, lp.startIndex,
                                         lp.startOffset, i, e1.selectedVoice,
                                         e1.textChunks.src))]
        ELSE playStep(e1, l, lp, i, buffer)

\* lines 295-314: playQueue up to its for loop
playQueue(e, startIndex, startOffset) ==
  IF startIndex >= e.textChunks.len THEN stopPlayback(e, FALSE)
  ELSE LET l == FreshLoop(e.loops)
           lp == [sid |-> e.playbackSessionId, startIndex |-> startIndex,
                  startOffset |-> startOffset]
           e1 == [e EXCEPT !.status = "playing", !.nextStartTime = LEAD]
       IN  runLoop(prefetchWindow(e1, startIndex), l, lp, startIndex)

Header(lp) == [sid |-> lp.sid, startIndex |-> lp.startIndex,
               startOffset |-> lp.startOffset]

\* lines 335-349: generateSpeechChunk of the active path settles.
\* outcome: "ok", "synthFail" (the await throws) or "decodeFail".
synthSettled(e, l, outcome) ==
  LET lp == e.loops[l]
      i == lp.i
  IN  IF outcome = "synthFail" THEN catchError(e, l, Header(lp), i)
      ELSE
        LET e1 == [e EXCEPT !.processingChunks = @ \ {i}]
        IN  IF e1.playbackSessionId # lp.sid THEN [e1 EXCEPT !.loops = Without(@, l)]
            ELSE IF lp.voiceToUse # e1.selectedVoice THEN finishLoop(e1, l, Header(lp))
            ELSE IF outcome = "decodeFail" THEN catchError(e1, l, Header(lp), i)
            ELSE LET buffer == Buffer(lp.textSrc, i, lp.voiceToUse)
                     e2 == [e1 EXCEPT !.audioBuffers = SetAt(@, i, buffer)]
                 IN  playStep(e2, l, Header(lp), i, buffer)

\* lines 428-431 and 356-359: the `ended` event of the loop's source is
\* delivered, playBuffer's promise resolves and the loop goes on
endedDelivered(e, l) ==
  LET lp == e.loops[l]
  IN  runLoop(AfterPlay(e, Header(lp), lp.i), l, Header(lp), lp.i + 1)

\* ------------------------------------------------- the speed effect
\* An effect that updates the refs and leaves the sounding source alone.
speedEffect_RefsOnly(e, s) ==
  [e EXCEPT !.speed = s, !.chunkPlaybackRate = s]

\* An effect that sets the rate and keeps the reference clock where it was.
speedEffect_NoRebase(e, s) ==
  LET node == e.activeSource.node
  IN  [e EXCEPT !.speed = s,
                !.chunkPlaybackRate = s,
                !.loops = IF e.activeSource # NoSource /\ node \in Live(@)
                          THEN [@ EXCEPT ![node].rate = s] ELSE @]

\* lines 92-114: useEffect([speed])
speedEffect(e, s) ==
  LET e1 == [e EXCEPT !.speed = s]
      e2 == IF e.activeSource = NoSource THEN e1
            ELSE LET rebase == e.chunkStartTime < 0
                     elapsed == 0 - e.chunkStartTime
                     offset == e.chunkStartOffset + elapsed * e.chunkPlaybackRate
                     node == e.activeSource.node
                 IN  [e1 EXCEPT
                        !.chunkStartOffset = IF rebase THEN Min(offset, DURATION) ELSE @,
                        !.chunkStartTime = IF rebase THEN 0 ELSE @,
                        !.loops = IF node \in Live(@) THEN [@ EXCEPT ![node].rate = s]
                                  ELSE @]
  IN  [e2 EXCEPT !.chunkPlaybackRate = s]

\* ------------------------------------------------ handleFetchContent
\* A reset that keeps the in-flight markers.
fetchReset_KeepMarkers(e) ==
  [stopPlayback([e EXCEPT !.error = NoError, !.isLoadingContent = TRUE], FALSE)
     EXCEPT !.audioBuffers = <<>>, !.textChunks = NoChunks]

\* lines 266-271
fetchReset(e) ==
  [stopPlayback([e EXCEPT !.error = NoError, !.isLoadingContent = TRUE], FALSE)
     EXCEPT !.audioBuffers = <<>>, !.textChunks = NoChunks, !.processingChunks = {}]

\* lines 283-292, n the number of chunks chunkText made of the content
fetchLoaded(e, n) ==
  IF n = 0
  THEN [e EXCEPT !.error = [kind |-> "fetch", para |-> 0], !.isLoadingContent = FALSE]
  ELSE [e EXCEPT !.textChunks = [src |-> e.srcCount + 1, len |-> n],
                 !.srcCount = @ + 1,
                 !.audioBuffers = Nulls(n),
                 !.isLoadingContent = FALSE]

\* lines 288-292: the catch and the finally of handleFetchContent
fetchFailed(e) ==
  [e EXCEPT !.error = [kind |-> "fetch", para |-> 0], !.isLoadingContent = FALSE]

\* --------------------------------------------------------------- Init
InitApp ==
  /\ status = "idle"
  /\ currentChunkIndex = -1
  /\ error = NoError
  /\ selectedVoice = 1
  /\ speed = 1
  /\ mode = "url"
  /\ isLoadingContent = FALSE
  /\ textChunks = NoChunks
  /\ audioBuffers = <<>>
  /\ playbackSessionId = 0
  /\ activeSource = NoSource
  /\ nextStartTime = -1
  /\ chunkStartTime = 0 - DURATION
  /\ chunkStartOffset = 0
  /\ chunkPlaybackRate = 1
  /\ resumeOffset = 0
  /\ processingChunks = {}
  /\ loops = <<>>
  /\ timers = <<>>
  /\ requests = EmptyBag
  /\ fetches = 0
  /\ srcCount = 0
  /\ lastOp = [op |-> "none", arg |-> 0]
  /\ started = <<>>
  /\ pausedAt = NoPause
  /\ lastSettle = NoSettle
  /\ ops = 0

\* No pure function has been applied.
NotApplied ==
  /\ chunks = <<>>
  /\ decoded = NoResult
  /\ calls = 0

\* No payload has been received.
NoPayload ==
  /\ pcm = NoPcm
  /\ base64Data = <<>>
  /\ sampleRate = SAMPLE_RATE

Init ==
  /\ InitApp
  /\ text = <<>>
  /\ NoPayload
  /\ NotApplied

\* ---------------------------------------------------- the user's steps
\* The user samples the sounding position only where it is a whole number of
\* 2x steps, so that every offset divides by every speed.
OnGrid == \A l \in Live(loops) : loops[l].pos % 2 = 0

\* What is sounding (or scheduled): chunk and position.
Sounding ==
  IF Live(loops) = {} THEN NoPause
  ELSE LET l == CHOOSE k \in Live(loops) : TRUE
       IN  [idx |-> loops[l].i, pos |-> loops[l].pos]

UserOp(e, op, arg, pause) ==
  [e EXCEPT !.lastOp = [op |-> op, arg |-> arg], !.started = <<>>, !.pausedAt = pause,
            !.lastSettle = NoSettle, !.ops = @ + 1]

\* lines 435-447; the PlayerBar is rendered only when there are chunks
handleTogglePlay(budget) ==
  /\ textChunks.len > 0
  /\ OnGrid
  /\ ops < budget
  /\ IF status = "playing"
     THEN Commit(stopPlayback(UserOp(Cur, "pause", currentChunkIndex, Sounding), TRUE))
     ELSE LET startIndex == IF currentChunkIndex > -1 THEN currentChunkIndex ELSE 0
              startOffset == IF status = "paused" THEN resumeOffset ELSE 0
              e0 == IF status = "paused"
                    THEN UserOp(Cur, "resume", startIndex, pausedAt)
                    ELSE UserOp(Cur, "play", startIndex, NoPause)
              e1 == [e0 EXCEPT !.playbackSessionId = @ + 1]
          IN  Commit(playQueue(e1, startIndex, startOffset))

\* lines 449-460, up to the setTimeout
handleParagraphClick(index, budget) ==
  /\ index < textChunks.len
  /\ OnGrid
  /\ ops < budget
  /\ LET e1 == stopPlayback(UserOp(Cur, "seek", index, NoPause), TRUE)
     IN  Commit([e1 EXCEPT !.playbackSessionId = @ + 1,
                           !.timers = Append(@, index)])

\* lines 457-459: the timer's callback
timerFired ==
  /\ timers # <<>>
  /\ Commit(playQueue([Cur EXCEPT !.timers = Tail(@)], Head(timers), 0))

\* lines 462-467
handleVoiceChange(newVoice, budget) ==
  /\ OnGrid
  /\ ops < budget
  /\ LET e1 == stopPlayback(UserOp(Cur, "voice", newVoice, NoPause), TRUE)
     IN  Commit([e1 EXCEPT !.selectedVoice = newVoice,
                           !.audioBuffers = Nulls(textChunks.len),
                           !.processingChunks = {}])

\* lines 469-476
handleModeChange(nextMode, budget) ==
  /\ ops < budget
  /\ LET e0 == UserOp(Cur, "mode", 0, NoPause)
         e1 == stopPlayback([e0 EXCEPT !.mode = nextMode, !.error = NoError], FALSE)
     IN  Commit([e1 EXCEPT !.audioBuffers = <<>>,
                           !.textChunks = NoChunks,
                           !.processingChunks = {}])

\* lines 265-293.  The button is disabled while loading or playing (line 664);
\* Enter in the URL field is not (line 645).  given: whether the field holds
\* anything; n: the number of chunks of the pasted text.
handleFetchContent(given, n, budget) ==
  /\ (~isLoadingContent /\ status # "playing") \/ mode = "url"
  /\ ops < budget
  /\ LET e1 == fetchReset(UserOp(Cur, "load", 0, NoPause))
     IN  IF ~given THEN Commit(fetchFailed(e1))
         ELSE IF mode = "url"
              THEN /\ fetches < MaxPending
                   /\ n = 0
                   /\ Commit([e1 EXCEPT !.fetches = @ + 1])
              ELSE Commit(fetchLoaded(e1, n))

\* lines 277-292: extractTextFromUrl settles
extractSettled(ok, n) ==
  /\ fetches > 0
  /\ LET e1 == [Cur EXCEPT !.fetches = @ - 1]
     IN  IF ok THEN Commit(fetchLoaded(e1, n))
         ELSE n = 0 /\ Commit(fetchFailed(e1))

\* PlayerBar's speed select (src/components/PlayerBar.tsx:61)
onSpeedChange(s, budget) ==
  /\ textChunks.len > 0
  /\ s # speed
  /\ OnGrid
  /\ ops < budget
  /\ Commit(speedEffect([Cur EXCEPT !.ops = @ + 1], s))

\* ------------------------------------------------ the environment's steps
PrefetchSettled(r, ok) ==
  /\ BagIn(r, requests)
  /\ Commit(prefetchSettled(Cur, r, ok))

SynthSettled(l, outcome) ==
  /\ l \in DOMAIN loops
  /\ loops[l].pc = "synth"
  /\ Commit(synthSettled(Cur, l, outcome))

EndedDelivered(l) ==
  /\ l \in DOMAIN loops
  /\ loops[l].pc = "play"
  /\ loops[l].ended
  /\ Commit(endedDelivered(Cur, l))

\* One unit of ctx.currentTime passes: every scheduled node comes one tick
\* nearer to its start, every sounding node advances by its rate and ends at
\* its buffer's end.
TickNode(n) ==
  IF n.pc # "play" \/ n.ended THEN n
  ELSE IF n.startIn > 0 THEN [n EXCEPT !.startIn = @ - 1]
  ELSE LET pos == Min(DURATION, n.pos + n.rate)
       IN  [n EXCEPT !.pos = pos, !.ended = (pos >= DURATION)]

\* Time is observed while a node is live, and while a current loop awaits its
\* synthesis until the cursor has fallen behind the clock.
Tick ==
  /\ \/ Live(loops) # {}
     \/ /\ nextStartTime > -1
        /\ \E l \in DOMAIN loops :
             loops[l].pc = "synth" /\ loops[l].sid = playbackSessionId
  /\ Commit([Cur EXCEPT !.loops = [l \in DOMAIN @ |-> TickNode(@[l])],
                        !.nextStartTime = Max(-1, @ - 1),
                        !.chunkStartTime = Max(0 - DURATION, @ - 1)])

Next ==
  \/ handleTogglePlay(MaxOps)
  \/ \E index \in 0..(MaxChunks - 1) : handleParagraphClick(index, MaxOps)
  \/ timerFired
  \/ \E v \in Voices : handleVoiceChange(v, MaxOps)
  \/ \E m \in Modes : handleModeChange(m, MaxOps)
  \/ \E given \in BOOLEAN, n \in 0..MaxChunks : handleFetchContent(given, n, MaxOps)
  \/ \E ok \in BOOLEAN, n \in 0..MaxChunks : extractSettled(ok, n)
  \/ \E s \in Speeds : onSpeedChange(s, MaxOps)
  \/ \E r \in BagToSet(requests), ok \in BOOLEAN : PrefetchSettled(r, ok)
  \/ \E l \in DOMAIN loops, o \in {"ok", "synthFail", "decodeFail"} : SynthSettled(l, o)
  \/ \E l \in DOMAIN loops : EndedDelivered(l)
  \/ Tick

Spec == Init /\ [][Next]_vars

\* Every pending request and callback is eventually delivered, and time passes:
\* the clock advances while a node is live, a synthesis awaited by a loop settles
\* (line 335), and a queued `ended` event is dispatched (lines 428-431).
\* A loop needs a loaded text, so the first operation starts none.
LoopIds == 1..(MaxOps - 1)

Delivery ==
  /\ WF_vars(Tick)
  /\ \A l \in LoopIds :
       /\ WF_vars(\E o \in {"ok", "synthFail", "decodeFail"} : SynthSettled(l, o))
       /\ WF_vars(EndedDelivered(l))

\* The operations that supersede a loop at once: pause, resume, voice, mode and
\* source changes, with changes of speed.
NextLive ==
  \/ handleTogglePlay(MaxOps)
  \/ \E v \in Voices : handleVoiceChange(v, MaxOps)
  \/ \E m \in Modes : handleModeChange(m, MaxOps)
  \/ \E given \in BOOLEAN, n \in 0..MaxChunks : handleFetchContent(given, n, MaxOps)
  \/ \E ok \in BOOLEAN, n \in 0..MaxChunks : extractSettled(ok, n)
  \/ \E s \in Speeds : onSpeedChange(s, MaxOps)
  \/ \E r \in BagToSet(requests), ok \in BOOLEAN : PrefetchSettled(r, ok)
  \/ \E l \in DOMAIN loops, o \in {"ok", "synthFail", "decodeFail"} : SynthSettled(l, o)
  \/ \E l \in DOMAIN loops : EndedDelivered(l)
  \/ Tick

SpecLive == Init /\ [][NextLive]_vars /\ Delivery

\* One operation more, without paragraph clicks: play, pause and resume of a
\* loaded text, with voice, speed and source changes.
NextResume ==
  \/ handleTogglePlay(MaxOps + 1)
  \/ \E v \in Voices : handleVoiceChange(v, MaxOps + 1)
  \/ \E m \in Modes : handleModeChange(m, MaxOps + 1)
  \/ \E given \in BOOLEAN, n \in 0..MaxChunks : handleFetchContent(given, n, MaxOps + 1)
  \/ \E ok \in BOOLEAN, n \in 0..MaxChunks : extractSettled(ok, n)
  \/ \E s \in Speeds : onSpeedChange(s, MaxOps + 1)
  \/ \E r \in BagToSet(requests), ok \in BOOLEAN : PrefetchSettled(r, ok)
  \/ \E l \in DOMAIN loops, o \in {"ok", "synthFail", "decodeFail"} : SynthSettled(l, o)
  \/ \E l \in DOMAIN loops : EndedDelivered(l)
  \/ Tick

SpecResume == Init /\ [][NextResume]_vars

\* Texts longer than the prefetch window, loaded, played, paused and resumed.
NextLong ==
  \/ handleTogglePlay(MaxOps)
  \/ \E given \in BOOLEAN, n \in 0..LongChunks : handleFetchContent(given, n, MaxOps)
  \/ \E ok \in BOOLEAN, n \in 0..LongChunks : extractSettled(ok, n)
  \/ \E r \in BagToSet(requests), ok \in BOOLEAN : PrefetchSettled(r, ok)
  \/ \E l \in DOMAIN loops, o \in {"ok", "synthFail", "decodeFail"} : SynthSettled(l, o)
  \/ \E l \in DOMAIN loops : EndedDelivered(l)
  \/ Tick

SpecLong == Init /\ [][NextLong]_vars

\* ------------------------------------------------------------ chunkText
\* A text is a sequence of characters: two letters, the space, the line feed
\* and the carriage return.
Chars == {"a", "b", " ", "\n", "\r"}
Texts == UNION {[1..n -> Chars] : n \in 0..MaxText}

\* The characters \s matches and trim() removes.
IsSpace(c) == c \in {" ", "\n", "\r"}

\* line 152: text.replace(/\r\n/g, '\n')
RECURSIVE NormalizeCRLF(_)
NormalizeCRLF(t) ==
  IF Len(t) < 2 THEN t
  ELSE IF t[1] = "\r" /\ t[2] = "\n"
       THEN <<"\n">> \o NormalizeCRLF(SubSeq(t, 3, Len(t)))
       ELSE <<t[1]>> \o NormalizeCRLF(Tail(t))

\* The end of the match of /\n\s*\n/ that begins at p, or 0: \s* is greedy, so
\* the match ends at the last line feed of the white space that follows p.
MatchEnd(t, p) ==
  IF t[p] # "\n" THEN 0
  ELSE LET run == {q \in p..Len(t) : \A k \in (p + 1)..q : IsSpace(t[k])}
           ends == {m \in run : m > p /\ t[m] = "\n"}
       IN  IF ends = {} THEN 0 ELSE CHOOSE m \in ends : \A n \in ends : n <= m

\* line 154: split(/\n\s*\n/), scanning from p with the piece begun at start
RECURSIVE SplitFrom(_, _, _)
SplitFrom(t, start, p) ==
  IF p > Len(t) THEN <<SubSeq(t, start, Len(t))>>
  ELSE LET m == MatchEnd(t, p)
       IN  IF m = 0 THEN SplitFrom(t, start, p + 1)
           ELSE <<SubSeq(t, start, p - 1)>> \o SplitFrom(t, m + 1, m + 1)

RECURSIVE TrimStart(_)
TrimStart(p) ==
  IF p # <<>> /\ IsSpace(Head(p)) THEN TrimStart(Tail(p)) ELSE p

RECURSIVE TrimEnd(_)
TrimEnd(p) ==
  IF p # <<>> /\ IsSpace(p[Len(p)]) THEN TrimEnd(SubSeq(p, 1, Len(p) - 1)) ELSE p

\* A paragraph taken as it was split off.
Trim_None(p) == p

\* line 155: p.trim()
Trim(p) == TrimEnd(TrimStart(p))

\* A filter that keeps every paragraph.
NonEmpty_All(ps) == ps

\* line 156: filter(p => p.length > 0)
NonEmpty(ps) == SelectSeq(ps, LAMBDA p : Len(p) > 0)

\* lines 164-166: the slices of a long paragraph, from index i on
RECURSIVE Slices(_, _)
Slices(p, i) ==
  IF i >= Len(p) THEN <<>>
  ELSE <<SubSeq(p, i + 1, Min(i + MaxLength, Len(p)))>> \o Slices(p, i + MaxLength)

\* Slices of full length only: the remainder of the paragraph is dropped.
Pieces_DropTail(p) ==
  [k \in 1..(Len(p) \div MaxLength) |->
     SubSeq(p, (k - 1) * MaxLength + 1, k * MaxLength)]

\* lines 160-167: what one paragraph pushes
Pieces(p) == IF Len(p) <= MaxLength THEN <<p>> ELSE Slices(p, 0)

RECURSIVE Flatten(_)
Flatten(ss) == IF ss = <<>> THEN <<>> ELSE Head(ss) \o Flatten(Tail(ss))

\* lines 150-170
chunkText(t) ==
  LET split == SplitFrom(NormalizeCRLF(t), 1, 1)
      paragraphs == NonEmpty([k \in 1..Len(split) |-> Trim(split[k])])
  IN  Flatten([k \in 1..Len(paragraphs) |-> Pieces(paragraphs[k])])

InitChunk ==
  /\ InitApp
  /\ text \in Texts
  /\ NoPayload
  /\ NotApplied

\* line 283: chunkText(content)
ApplyChunkText ==
  /\ calls < MaxCalls
  /\ chunks' = chunkText(text)
  /\ calls' = calls + 1
  /\ UNCHANGED <<appVars, text, pcm, base64Data, sampleRate, decoded>>

NextChunk == ApplyChunkText

SpecChunk == InitChunk /\ [][NextChunk]_vars

\* ------------------------------------------------------ decodeAudioData
\* The payload is a base64 string, here the sequence of the sextets its
\* characters stand for (0..63) and of PAD.  The speech service encodes 16-bit
\* samples, low byte first.
SampleVals == {-32768, -256, -1, 0, 1, 255, 256, 32767}
SampleRates == {SAMPLE_RATE, 2 * SAMPLE_RATE}

\* The two bytes of a sample in two's complement, low byte first.
BytesLE(ss) ==
  [k \in 1..(2 * Len(ss)) |->
     LET u == ss[(k + 1) \div 2] % 65536
     IN  IF k % 2 = 1 THEN u % 256 ELSE u \div 256]

\* Standard base64 of a sequence of bytes, with its padding.
Encode(bytes) ==
  LET n == Len(bytes)
      B(i) == IF i <= n THEN bytes[i] ELSE 0
      sextets == (8 * n + 5) \div 6
      Sextet(k) ==
        LET g == 3 * ((k - 1) \div 4)
            j == (k - 1) % 4
        IN  IF j = 0 THEN B(g + 1) \div 4
            ELSE IF j = 1 THEN (B(g + 1) % 4) * 16 + B(g + 2) \div 16
            ELSE IF j = 2 THEN (B(g + 2) % 16) * 4 + B(g + 3) \div 64
            ELSE B(g + 3) % 64
  IN  [k \in 1..(4 * ((n + 2) \div 3)) |-> IF k <= sextets THEN Sextet(k) ELSE PAD]

\* The same string without its padding, which atob accepts as well.
Unpadded(b64) == SelectSeq(b64, LAMBDA c : c # PAD)

Throw(name) == [kind |-> "error", name |-> name]

\* line 88: atob (forgiving-base64 decode): one or two trailing "=" of a string
\* whose length is a multiple of 4 are removed; a length of 4n+1 or a character
\* outside the alphabet is an error; the bits left over are dropped.
atob(b64) ==
  LET n == Len(b64)
      d == IF n % 4 = 0 /\ n > 0 /\ b64[n] = PAD
           THEN (IF b64[n - 1] = PAD THEN SubSeq(b64, 1, n - 2) ELSE SubSeq(b64, 1, n - 1))
           ELSE b64
      D(i) == IF i <= Len(d) THEN d[i] ELSE 0
      Byte(k) ==
        LET g == 4 * ((k - 1) \div 3)
            j == (k - 1) % 3
        IN  IF j = 0 THEN D(g + 1) * 4 + D(g + 2) \div 16
            ELSE IF j = 1 THEN (D(g + 2) % 16) * 16 + D(g + 3) \div 4
            ELSE (D(g + 3) % 4) * 64 + D(g + 4)
  IN  IF Len(d) % 4 = 1 \/ \E i \in 1..Len(d) : d[i] = PAD
      THEN Throw("InvalidCharacterError")
      ELSE [kind |-> "bytes", bytes |-> [k \in 1..((6 * Len(d)) \div 8) |-> Byte(k)]]

\* line 105: new Int16Array(bytes.buffer).  A typed array reads its elements
\* in the byte order of the host, which is little-endian here.
Int16Array(bytes) ==
  IF Len(bytes) % 2 # 0 THEN Throw("RangeError")
  ELSE [kind |-> "int16",
        data |-> [k \in 1..(Len(bytes) \div 2) |->
                    LET u == bytes[2 * k - 1] + 256 * bytes[2 * k]
                    IN  IF u >= 32768 THEN u - 65536 ELSE u]]

\* line 108: ctx.createBuffer throws NotSupportedError for a length of 0
createBuffer(numChannels, length, rate) ==
  IF length = 0 THEN Throw("NotSupportedError")
  ELSE [kind |-> "buffer", numberOfChannels |-> numChannels, length |-> length,
        sampleRate |-> rate]

\* A conversion that divides by the largest sample.
Normalize_ByMax(sample) == [num |-> sample, den |-> 32767]

\* line 113: dataInt16[i] / 32768.0, a fraction that a float holds exactly
Normalize(sample) == [num |-> sample, den |-> 32768]

\* A decoder that gives an empty result for what it cannot read.
decodeAudioData_Lenient(b64, rate) ==
  [kind |-> "buffer", numberOfChannels |-> 1, length |-> 0, sampleRate |-> rate,
   channelData |-> <<>>]

\* lines 98-117
decodeAudioData(b64, rate) ==
  LET bytes == atob(b64)
  IN  IF bytes.kind = "error" THEN bytes
      ELSE LET dataInt16 == Int16Array(bytes.bytes)
           IN  IF dataInt16.kind = "error" THEN dataInt16
               ELSE LET buffer == createBuffer(1, Len(dataInt16.data), rate)
                    IN  IF buffer.kind = "error" THEN buffer
                        ELSE [kind |-> "buffer", numberOfChannels |-> 1,
                              length |-> buffer.length, sampleRate |-> rate,
                              channelData |->
                                [i \in 1..Len(dataInt16.data) |->
                                   Normalize(dataInt16.data[i])]]

InitDecode ==
  /\ InitApp
  /\ text = <<>>
  /\ pcm \in [samples : UNION {[1..n -> SampleVals] : n \in 0..MaxSamples},
               extra : {<<>>, <<0>>, <<255>>}]
  /\ base64Data \in {Encode(BytesLE(pcm.samples) \o pcm.extra),
                      Unpadded(Encode(BytesLE(pcm.samples) \o pcm.extra))}
  /\ sampleRate \in SampleRates
  /\ NotApplied

\* lines 248, 342: decodeAudioData(base64, ctx, SAMPLE_RATE)
ApplyDecode ==
  /\ calls < MaxCalls
  /\ decoded' = decodeAudioData(base64Data, sampleRate)
  /\ calls' = calls + 1
  /\ UNCHANGED <<appVars, text, chunks, pcm, base64Data, sampleRate>>

NextDecode == ApplyDecode

SpecDecode == InitDecode /\ [][NextDecode]_vars

\* ============================================================ properties
Current(l) == l \in DOMAIN loops /\ loops[l].sid = playbackSessionId
Stale(l) == l \in DOMAIN loops /\ loops[l].sid # playbackSessionId

\* A step in which playBuffer starts a source.
NewSources == Live(loops') \ Live(loops)

\* Requests for index i, under the selected voice and for the loaded text, that
\* have not settled: prefetchWindow's and the active path's.
Outstanding(i) ==
  CopiesIn([i |-> i, voice |-> selectedVoice, src |-> textChunks.src], requests)
  + Cardinality({l \in DOMAIN loops :
                   /\ loops[l].pc = "synth"
                   /\ loops[l].i = i
                   /\ loops[l].voiceToUse = selectedVoice
                   /\ loops[l].textSrc = textChunks.src})

\* C1: at most one playQueue loop holds the live session id.
C1_OneCurrentLoop ==
  Cardinality({l \in DOMAIN loops : Current(l)}) <= 1

\* C2: after seek(t), until the next user operation, the sources started are
\* those of t, t+1, ... in that order, and nothing else sounds.
C2_SeekStartsTargetOnly ==
  lastOp.op = "seek" =>
    /\ \A k \in 1..Len(started) : started[k].idx = lastOp.arg + k - 1
    /\ \A l \in Live(loops) : loops[l].i >= lastOp.arg

\* C3: a continuation of a superseded loop changes nothing: not status,
\* currentIndex, the error, the cache, the in-flight set, the resume offset or
\* the cursor, and it starts no source.
StaleContinuation(l) ==
  \/ SynthSettled(l, "ok")
  \/ SynthSettled(l, "synthFail")
  \/ SynthSettled(l, "decodeFail")
  \/ EndedDelivered(l)

C3_StaleContinuationInert ==
  [][\A l \in DOMAIN loops :
       (Stale(l) /\ StaleContinuation(l)) =>
         /\ UNCHANGED <<status, currentChunkIndex, error, audioBuffers,
                        processingChunks, resumeOffset, nextStartTime,
                        activeSource>>
         /\ NewSources = {}]_vars

\* C4: resume after a pause at position p of chunk c starts chunk c at offset p.
C4_ResumeAtPausedOffset ==
  (lastOp.op = "resume" /\ pausedAt # NoPause /\ started # <<>>) =>
    started[1] = [idx |-> pausedAt.idx, off |-> pausedAt.pos]

C6_NoStaleVoice ==
  /\ \A l \in Live(loops) : loops[l].buf.voice = selectedVoice
  /\ \A i \in 0..(Len(audioBuffers) - 1) :
       At(audioBuffers, i) # NoBuf => At(audioBuffers, i).voice = selectedVoice

\* C6 witness: after a voice change a source sounds under the new voice while a
\* request issued under the old voice is still in flight.
C6_Witness ==
  /\ selectedVoice = 2
  /\ \E l \in Live(loops) : loops[l].buf.voice = 2 /\ loops[l].startIn = 0
  /\ \E r \in BagToSet(requests) : r.voice = 1 /\ r.src = textChunks.src

\* C7: every cache entry at index i was synthesized from chunk i of the loaded
\* text.
C7_CacheOfLoadedText ==
  \A i \in 0..(Len(audioBuffers) - 1) :
     At(audioBuffers, i) # NoBuf =>
       /\ At(audioBuffers, i).src = textChunks.src
       /\ At(audioBuffers, i).idx = i

\* C8: a failure of the current loop's synthesis or decode at chunk i pauses at
\* i, reports paragraph i+1, ends the loop, starts no source and issues no
\* request.
C8_ActiveFailurePausesAtIndex ==
  [][\A l \in DOMAIN loops : \A o \in {"synthFail", "decodeFail"} :
       (Current(l) /\ SynthSettled(l, o)) =>
         /\ status' = "paused"
         /\ currentChunkIndex' = loops[l].i
         /\ error' = [kind |-> "playback", para |-> loops[l].i + 1]
         /\ l \notin DOMAIN loops'
         /\ NewSources = {}
         /\ requests' = requests]_vars

\* C9: the failure of a prefetch request changes neither status, currentIndex,
\* the generation nor the error, and touches no source.
C9_PrefetchFailureSilent ==
  [][\A r \in BagToSet(requests) :
       PrefetchSettled(r, FALSE) =>
         UNCHANGED <<status, currentChunkIndex, playbackSessionId, error,
                     activeSource, loops, nextStartTime, audioBuffers>>]_vars

\* C9 witness: a chunk is sounding and the prefetch of the chunk after it has
\* failed: it is neither cached, nor marked, nor in flight.
C9_Witness ==
  /\ status = "playing"
  /\ \E l \in Live(loops) :
       /\ Current(l) /\ loops[l].startIn = 0
       /\ loops[l].i + 1 < textChunks.len
       /\ At(audioBuffers, loops[l].i + 1) = NoBuf
       /\ loops[l].i + 1 \notin processingChunks
       /\ \A r \in BagToSet(requests) : r.i # loops[l].i + 1

\* C10: at most one request for an index is outstanding, and none for an index
\* that is cached.
C10_RequestsDeduplicated ==
  \A i \in 0..(textChunks.len - 1) :
     /\ Outstanding(i) <= 1
     /\ At(audioBuffers, i) # NoBuf => Outstanding(i) = 0

\* The chunks whose sources were started since the last user operation.
StartedIdx == [k \in 1..Len(started) |-> started[k].idx]

\* s, s+1, ..., s+n-1
Run(s, n) == [k \in 1..n |-> s + k - 1]

\* C11: the loop that play or resume started at index s hands s, s+1, ... to the
\* output in this order: when it is at index i, the sources started are those of
\* s..i-1, and that of i once the loop plays it.
\* When it has completed, they are those of s..n-1.
C11_InOrderNoSkip ==
  lastOp.op \in {"play", "resume"} =>
    /\ \A l \in DOMAIN loops :
         Current(l) =>
           StartedIdx = Run(lastOp.arg, loops[l].i - lastOp.arg
                                          + (IF loops[l].pc = "play" THEN 1 ELSE 0))
    /\ status = "idle" => StartedIdx = Run(lastOp.arg, textChunks.len - lastOp.arg)

\* C12: currentIndex is -1 or the index of a chunk, and it is -1 while status is
\* idle.
C12_CurrentIndexMeaningful ==
  /\ currentChunkIndex = -1
       \/ (0 <= currentChunkIndex /\ currentChunkIndex < textChunks.len)
  /\ status = "idle" => currentChunkIndex = -1

\* C13: when the loops that play, resume or seek started at index s have
\* completed, with no failure reported and no user operation since, the sources
\* started are those of s..n-1, each once.
C13_CompletedLoopEmittedEach ==
  (/\ lastOp.op \in {"play", "resume", "seek"}
   /\ status = "idle"
   /\ error = NoError
   /\ timers = <<>>
   /\ loops = <<>>) =>
    StartedIdx = Run(lastOp.arg, textChunks.len - lastOp.arg)

\* The source of loop l has played its buffer to the end, chunk i+1 is in the
\* cache, and the delivery of the `ended` event starts the source of chunk i+1.
NextFromCache(l) ==
  /\ Current(l)
  /\ EndedDelivered(l)
  /\ loops[l].pos = DURATION
  /\ At(audioBuffers, loops[l].i + 1) # NoBuf
  /\ NewSources # {}

\* C14: buffer k+1 is scheduled to start where the cursor stands, which is the
\* scheduled start of buffer k plus its remaining duration at the rate it was
\* scheduled with, and that is the moment buffer k ends: no silence separates
\* them.
C14_GaplessSchedule ==
  [][\A l \in DOMAIN loops :
       NextFromCache(l) =>
         /\ nextStartTime = 0
         /\ \A k \in NewSources : loops'[k].startIn = 0]_vars

\* The loops that begin, or advance to another index, in this step.
Arrived ==
  {l \in DOMAIN loops' :
     /\ loops'[l].sid = playbackSessionId'
     /\ l \in DOMAIN loops => loops[l].i # loops'[l].i}

\* The indices after i that prefetchWindow(i + 1, 3) covers.
Ahead(i, n) == {j \in (i + 1)..(i + WINDOW) : j < n}

\* C15: when a loop begins at, or advances to, index i, every index of the window
\* after i is cached or marked in flight, a request has been issued for each that
\* was neither, and no request is issued for an index that is no chunk's.
C15_WindowEnsured ==
  [][/\ \A l \in Arrived : \A j \in Ahead(loops'[l].i, textChunks'.len) :
          /\ At(audioBuffers', j) # NoBuf \/ j \in processingChunks'
          /\ (At(audioBuffers, j) = NoBuf /\ j \notin processingChunks) =>
               LET r == [i |-> j, voice |-> selectedVoice', src |-> textChunks'.src]
               IN  CopiesIn(r, requests') > CopiesIn(r, requests)
     /\ \A r \in BagToSet(requests') :
          CopiesIn(r, requests') > CopiesIn(r, requests) => r.i < textChunks'.len]_vars

\* C15 witness: a loop is at index i of a text that goes on beyond the window:
\* the WINDOW indices after i are cached or marked, the index after them is not.
C15_Witness ==
  \E l \in DOMAIN loops :
     /\ Current(l)
     /\ loops[l].i + WINDOW + 1 < textChunks.len
     /\ \A j \in Ahead(loops[l].i, textChunks.len) :
          At(audioBuffers, j) # NoBuf \/ j \in processingChunks
     /\ At(audioBuffers, loops[l].i + WINDOW + 1) = NoBuf
     /\ loops[l].i + WINDOW + 1 \notin processingChunks

\* C16: a prefetch request that completes under a voice other than the one it
\* was issued with leaves the cache as it is.
C16_StaleVoiceDiscarded ==
  [][\A r \in BagToSet(requests) :
       (PrefetchSettled(r, TRUE) /\ r.voice # selectedVoice) =>
         audioBuffers' = audioBuffers]_vars

\* C16 witness: the request that settled last was dropped for its voice, and the
\* cache had a place for it.
C16_Witness ==
  /\ lastSettle.how = "voice"
  /\ lastSettle.i < Len(audioBuffers)
  /\ At(audioBuffers, lastSettle.i) = NoBuf

\* The step of the user operation op (the speed select leaves lastOp alone).
OpStep(op) == ops' = ops + 1 /\ lastOp'.op = op /\ speed' = speed

\* C17: pause bumps the session, sets status paused, stops and disconnects the
\* sounding source and leaves no active one, keeps currentIndex, and stores a
\* resume offset within the buffer.
C17_PauseEffect ==
  [][OpStep("pause") =>
       /\ playbackSessionId' > playbackSessionId
       /\ status' = "paused"
       /\ activeSource' = NoSource
       /\ Live(loops') = {}
       /\ \A l \in Live(loops) : loops'[l].ended /\ ~loops'[l].connected
       /\ currentChunkIndex' = currentChunkIndex
       /\ 0 <= resumeOffset' /\ resumeOffset' <= DURATION]_vars

\* C17 witness: pause has just stopped a source in mid-buffer.
C17_Witness ==
  /\ lastOp.op = "pause"
  /\ pausedAt.idx = currentChunkIndex
  /\ pausedAt.pos > 0
  /\ resumeOffset = pausedAt.pos
  /\ \E l \in DOMAIN loops :
       loops[l].pc = "play" /\ loops[l].ended /\ ~loops[l].connected
                            /\ loops[l].pos = pausedAt.pos

\* The state a full reset leaves.
ResetDone ==
  /\ playbackSessionId' > playbackSessionId
  /\ activeSource' = NoSource
  /\ Live(loops') = {}
  /\ status' = "idle"
  /\ currentChunkIndex' = -1
  /\ \A i \in 0..(Len(audioBuffers') - 1) : At(audioBuffers', i) = NoBuf
  /\ processingChunks' = {}
  /\ resumeOffset' = 0

\* The chunk sequence is a new one, with an empty cache of its length.
NewSequence ==
  /\ textChunks'.src = srcCount + 1
  /\ textChunks'.len > 0
  /\ audioBuffers' = Nulls(textChunks'.len)

\* C18: a load and a mode change are full resets; the chunk sequence is then
\* the new one (at once for pasted text, when the extraction settles for a URL;
\* none after a mode change).
C18_LoadIsFullReset ==
  [][/\ OpStep("load") => ResetDone /\ (textChunks' = NoChunks \/ NewSequence)
     /\ OpStep("mode") => ResetDone /\ textChunks' = NoChunks
     /\ (fetches' < fetches /\ textChunks' # textChunks) => NewSequence]_vars

\* C18 witness: a second text has been loaded over a loop of the first.
C18_Witness ==
  /\ lastOp.op = "load"
  /\ textChunks.src = 2
  /\ loops # <<>>
  /\ status = "idle"
  /\ currentChunkIndex = -1
  /\ processingChunks = {}

\* C19: a load that fails (nothing to load, or no readable text) leaves status,
\* currentIndex, the resume offset, the chunk sequence and the cache as they
\* were.
C19_FailedLoadKeepsState ==
  [][(OpStep("load") /\ error'.kind = "fetch") =>
       UNCHANGED <<status, currentChunkIndex, resumeOffset, textChunks,
                   audioBuffers>>]_vars

\* The step of the speed select.
SpeedStep == ops' = ops + 1 /\ speed' # speed

\* C20: a change of speed sets the rate of the sounding source in place and
\* changes neither the session, status, currentIndex, the active source, the
\* cache, the in-flight set nor any loop or position; every source started has
\* the selected rate.
C20_RateOnly ==
  [][/\ SpeedStep =>
          /\ UNCHANGED <<playbackSessionId, status, currentChunkIndex,
                         activeSource, audioBuffers, processingChunks>>
          /\ DOMAIN loops' = DOMAIN loops
          /\ \A l \in DOMAIN loops :
               loops'[l] = IF l \in Live(loops)
                           THEN [loops[l] EXCEPT !.rate = speed']
                           ELSE loops[l]
     /\ \A l \in NewSources : loops'[l].rate = speed']_vars

\* C20 witness: the speed was changed while a source was sounding: the source
\* has the new rate and the refs were rebased to the position it had reached.
C20_Witness ==
  /\ speed = 2
  /\ started # <<>>
  /\ chunkStartOffset # started[Len(started)].off
  /\ \E l \in Live(loops) : loops[l].rate = 2 /\ loops[l].pos >= chunkStartOffset

\* C21: a pause while a buffer is sounding stores the position the source has
\* reached, whatever rate changes were made on the way: the start offset plus,
\* for every rate segment, the time spent in it times its rate, capped at the
\* buffer's duration.
C21_OffsetFollowsRateSegments ==
  [][OpStep("pause") =>
       \A l \in Live(loops) : resumeOffset' = Min(DURATION, loops[l].pos)]_vars

\* C21 witness: paused inside a buffer after time in two rate segments.
C21_Witness ==
  /\ lastOp.op = "pause"
  /\ speed = 2
  /\ chunkPlaybackRate = 2
  /\ chunkStartOffset > 0
  /\ resumeOffset > chunkStartOffset
  /\ resumeOffset < DURATION
  /\ resumeOffset = pausedAt.pos

\* A prefetch request issued under the selected voice for the loaded text
\* completes successfully: the cache holds its buffer.
StoredOnSuccess ==
  \A r \in BagToSet(requests) :
     (PrefetchSettled(r, TRUE) /\ r.voice = selectedVoice /\ r.src = textChunks.src) =>
       At(audioBuffers', r.i) = Buffer(r.src, r.i, r.voice)

\* A voice change or a load: every index reads as absent, no marker is left.
InvalidatedAll ==
  (OpStep("voice") \/ OpStep("load")) =>
    /\ \A i \in 0..(Len(audioBuffers') - 1) : At(audioBuffers', i) = NoBuf
    /\ processingChunks' = {}

\* Every source started plays a buffer synthesized under the selected voice from
\* the loaded text, that is, synthesized after the last invalidation.
Resynthesized ==
  \A l \in NewSources :
     /\ loops'[l].buf.voice = selectedVoice'
     /\ loops'[l].buf.src = textChunks'.src

\* C22: a successful prefetch under the unchanged voice and source puts a buffer
\* in the cache at its index; a voice change and a load leave every index absent
\* and the in-flight set empty, and what is played afterwards was synthesized
\* anew.
C22_EnsureAndInvalidate ==
  [][StoredOnSuccess /\ InvalidatedAll /\ Resynthesized]_vars

\* The lines of a text: the pieces between its line feeds.
RECURSIVE LinesOf(_)
LinesOf(t) ==
  LET feeds == {k \in 1..Len(t) : t[k] = "\n"}
  IN  IF feeds = {} THEN <<t>>
      ELSE LET p == CHOOSE k \in feeds : \A n \in feeds : k <= n
           IN  <<SubSeq(t, 1, p - 1)>> \o LinesOf(SubSeq(t, p + 1, Len(t)))

\* A blank line holds white space only.
Blank(line) == \A k \in 1..Len(line) : IsSpace(line[k])

\* The maximal runs of lines that are not blank, each joined by line feeds.
RECURSIVE ParagraphsFrom(_, _, _)
ParagraphsFrom(lines, cur, open) ==
  IF lines = <<>> THEN (IF open THEN <<cur>> ELSE <<>>)
  ELSE IF Blank(Head(lines))
       THEN (IF open THEN <<cur>> ELSE <<>>) \o ParagraphsFrom(Tail(lines), <<>>, FALSE)
       ELSE ParagraphsFrom(Tail(lines),
                           IF open THEN cur \o <<"\n">> \o Head(lines) ELSE Head(lines),
                           TRUE)

\* A paragraph without the white space around it.
Stripped(p) ==
  LET ink == {k \in 1..Len(p) : ~IsSpace(p[k])}
  IN  IF ink = {} THEN <<>>
      ELSE SubSeq(p, CHOOSE k \in ink : \A n \in ink : k <= n,
                     CHOOSE k \in ink : \A n \in ink : n <= k)

\* The blank-line-separated paragraphs of a text, trimmed.
ParagraphsOf(t) ==
  LET ps == ParagraphsFrom(LinesOf(NormalizeCRLF(t)), <<>>, FALSE)
  IN  [k \in 1..Len(ps) |-> Stripped(ps[k])]

\* C23: when every blank-line-separated paragraph of the text is at most the
\* threshold long after trimming, chunkText returns the trimmed non-empty
\* paragraphs, one chunk each, in their order.
C23_OneChunkPerParagraph ==
  (/\ calls > 0
   /\ \A k \in 1..Len(ParagraphsOf(text)) : Len(ParagraphsOf(text)[k]) <= MaxLength) =>
     chunks = ParagraphsOf(text)

\* C23 witness: two short paragraphs behind leading white space, separated by a
\* blank line that is not empty, have been chunked.
C23_Witness ==
  /\ calls > 0
  /\ Len(chunks) = 2
  /\ chunks = ParagraphsOf(text)
  /\ IsSpace(text[1])
  /\ \E k \in 2..(Len(text) - 2) :
       text[k] = "\n" /\ text[k + 1] \in {" ", "\r"} /\ text[k + 2] = "\n"

\* ceil(n / MaxLength)
CeilDiv(n) == (n + MaxLength - 1) \div MaxLength

\* The number of chunks of the paragraphs before the k-th.
RECURSIVE ChunksBefore(_, _)
ChunksBefore(ps, k) ==
  IF k <= 1 THEN 0 ELSE ChunksBefore(ps, k - 1) + CeilDiv(Len(ps[k - 1]))

\* C24: a paragraph of length L above the threshold T yields exactly ceil(L/T)
\* consecutive chunks, and their concatenation is the trimmed paragraph.
C24_LongParagraphSplit ==
  calls > 0 =>
    LET ps == ParagraphsOf(text)
    IN  /\ Len(chunks) = ChunksBefore(ps, Len(ps) + 1)
        /\ \A k \in 1..Len(ps) :
             Len(ps[k]) > MaxLength =>
               Flatten(SubSeq(chunks, ChunksBefore(ps, k) + 1,
                                      ChunksBefore(ps, k + 1))) = ps[k]

\* C24 witness: a paragraph whose length is not a multiple of the threshold has
\* been split, next to a second paragraph.
C24_Witness ==
  /\ calls > 0
  /\ Len(ParagraphsOf(text)) = 2
  /\ \E k \in 1..2 :
       /\ Len(ParagraphsOf(text)[k]) > MaxLength
       /\ Len(ParagraphsOf(text)[k]) % MaxLength # 0
  /\ Len(chunks) > 2

C26_DecodeNormalized ==
  (calls > 0 /\ pcm.extra = <<>> /\ Len(pcm.samples) >= 1) =>
    /\ decoded.kind = "buffer"
    /\ decoded.length = Len(pcm.samples)
    /\ decoded.sampleRate = sampleRate
    /\ Len(decoded.channelData) = Len(pcm.samples)
    /\ \A k \in 1..Len(pcm.samples) :
         LET f == decoded.channelData[k]
         IN  /\ f.num * 32768 = pcm.samples[k] * f.den
             /\ 0 - f.den <= f.num /\ f.num <= f.den

\* C26 witness: the lowest sample and a sample whose two bytes differ have been
\* decoded from an unpadded payload.
C26_Witness ==
  /\ calls > 0
  /\ pcm = [samples |-> <<-32768, 255>>, extra |-> <<>>]
  /\ base64Data = Unpadded(base64Data)
  /\ base64Data # Encode(BytesLE(pcm.samples))
  /\ decoded.kind = "buffer"
  /\ decoded.channelData = <<[num |-> -32768, den |-> 32768], [num |-> 255, den |-> 32768]>>

\* C27: decoding an empty payload, or one whose byte length is odd, fails and
\* gives no buffer.
C27_DecodeRejects ==
  (calls > 0 /\ (Len(BytesLE(pcm.samples) \o pcm.extra) = 0 \/ pcm.extra # <<>>)) =>
    decoded.kind = "error"

\* C27 witness: the empty payload has been refused by createBuffer and a payload
\* of odd length by Int16Array.
C27_Witness ==
  /\ calls > 0
  /\ \/ base64Data = <<>> /\ decoded = Throw("NotSupportedError")
     \/ Len(pcm.samples) = 1 /\ pcm.extra # <<>> /\ decoded = Throw("RangeError")

\* C28: a prefetch request that completes after the session was bumped stores
\* nothing.  After a pause every request in flight was issued before it: no
\* loop is current, and prefetchWindow is called by current loops only.
C28_PrefetchFencedBySession ==
  [][\A r \in BagToSet(requests) :
       (lastOp.op = "pause" /\ status = "paused" /\ PrefetchSettled(r, TRUE)) =>
         audioBuffers' = audioBuffers]_vars

\* A failure of the active path: the synthesis or the decode of loop l fails.
ActiveFailure(l) == SynthSettled(l, "synthFail") \/ SynthSettled(l, "decodeFail")

\* C29: a failure on the active path of a superseded loop sets no error, changes
\* neither status nor the resume offset, and does not bump the session.
C29_StaleFailureSilent ==
  [][\A l \in DOMAIN loops :
       (Stale(l) /\ ActiveFailure(l)) =>
         UNCHANGED <<error, status, resumeOffset, playbackSessionId>>]_vars

\* C29 witness: after a pause the superseded loop's synthesis has failed: the
\* loop is gone, its marker is left with no request behind it, and the pause's
\* state stands.
C29_Witness ==
  /\ lastOp.op = "pause"
  /\ status = "paused"
  /\ error = NoError
  /\ loops = <<>>
  /\ \E i \in processingChunks : \A r \in BagToSet(requests) : r.i # i

\* C30: a failed prefetch request leaves the cache as it was and its index
\* without marker; a loop that reaches an index the cache does not hold issues
\* its own synthesis request for it and waits.
C30_FailedPrefetchRetried ==
  [][/\ \A r \in BagToSet(requests) :
          PrefetchSettled(r, FALSE) =>
            /\ audioBuffers' = audioBuffers
            /\ r.i \notin processingChunks'
     /\ \A l \in Arrived :
          At(audioBuffers', loops'[l].i) = NoBuf =>
            /\ loops'[l].pc = "synth"
            /\ loops'[l].voiceToUse = selectedVoice'
            /\ loops'[l].i \in processingChunks']_vars

\* C30 witness: the prefetch of a chunk failed while the chunk before it was
\* played; the loop has reached the chunk and awaits its own request for it.
C30_Witness ==
  /\ lastSettle.how = "failed"
  /\ started # <<>>
  /\ At(audioBuffers, lastSettle.i) = NoBuf
  /\ \A r \in BagToSet(requests) : r.i # lastSettle.i
  /\ \E l \in DOMAIN loops :
       /\ Current(l) /\ loops[l].pc = "synth" /\ loops[l].i = lastSettle.i
       /\ loops[l].i > loops[l].startIndex

\* The playQueue invocations that began in this step.
Begun == (DOMAIN loops') \ (DOMAIN loops)

\* C31: no source is scheduled in the past.  playQueue sets the cursor to
\* now + LEAD, and every source starts at the cursor, or now if the cursor has
\* fallen behind the clock.
C31_NeverScheduledInPast ==
  [][/\ \A l \in NewSources :
          /\ loops'[l].startIn >= 0
          /\ loops'[l].startIn = IF l \in Begun THEN LEAD ELSE Max(nextStartTime, 0)
     /\ \A l \in Begun : loops'[l].pc = "synth" => nextStartTime' = LEAD]_vars

\* C31 witness: the first buffer of a loop became ready after the cursor and was
\* started at once.
C31_Witness ==
  /\ lastOp.op = "play"
  /\ Len(started) = 1
  /\ \E l \in Live(loops) :
       /\ Current(l) /\ loops[l].i = loops[l].startIndex
       /\ loops[l].startIn = 0 /\ loops[l].pos = 0
       /\ chunkStartTime = 0
       /\ nextStartTime = DURATION \div speed

\* C32: a loop started with play(s, o) starts the buffer of index s at o,
\* clamped to the buffer, and every later buffer at offset 0.
C32_OffsetOnFirstOnly ==
  [][\A l \in NewSources :
       loops'[l].pos = IF loops'[l].i = loops'[l].startIndex
                       THEN Min(Max(loops'[l].startOffset, 0), DURATION)
                       ELSE 0]_vars

\* C32 witness: a resume inside chunk s has started s at the offset and s+1 at 0.
C32_Witness ==
  /\ lastOp.op = "resume"
  /\ Len(started) = 2
  /\ started[1].idx = lastOp.arg /\ started[1].off > 0
  /\ started[2] = [idx |-> lastOp.arg + 1, off |-> 0]

\* The operations of the user that supersede the running loops.
BumpingOps == {"pause", "resume", "play", "seek", "voice", "mode", "load"}

\* C33: the session id never decreases, and every pause, resume, play, seek,
\* load, mode change and voice change strictly increases it; so does the stop
\* after a failure on the active path of the current loop.
C33_SessionMonotone ==
  [][/\ playbackSessionId' >= playbackSessionId
     /\ \A op \in BumpingOps : OpStep(op) => playbackSessionId' > playbackSessionId
     /\ \A l \in DOMAIN loops :
          (Current(l) /\ ActiveFailure(l)) => playbackSessionId' > playbackSessionId]_vars

\* C33 witness: the budget of operations is used up, the last one a seek, and the
\* session id has passed the number of operations.
C33_Witness ==
  /\ lastOp.op = "seek"
  /\ ops = MaxOps
  /\ playbackSessionId > MaxOps

AwaitsCurrent ==
  /\ Live(loops) = {}
  /\ \E l \in DOMAIN loops :
       Current(l) /\ loops[l].pc = "synth" /\ loops[l].i = currentChunkIndex

\* C35: when status becomes paused (by a pause or by a failure on the active
\* path) while the loop awaits the synthesis of chunk currentIndex and nothing
\* sounds, the resume offset stored is 0; and the resume that follows a pause
\* made while nothing sounded starts its loop at offset 0.
C35_ResumeOffsetOfCurrentChunk ==
  [][/\ (AwaitsCurrent /\ status = "playing" /\ status' = "paused")
          => resumeOffset' = 0
     /\ (lastOp.op = "pause" /\ pausedAt = NoPause /\ OpStep("resume"))
          => \A l \in Begun : loops'[l].startOffset = 0]_vars

\* The rate of the source of loop l was raised after its buffer had begun to
\* sound: the speed effect moved the reference offset past the buffer's start.
RaisedWhileSounding(l) ==
  /\ loops[l].rate > 1
  /\ chunkPlaybackRate = loops[l].rate
  /\ chunkStartOffset > Min(Max(OffsetFor(loops[l], loops[l].i), 0), DURATION)

\* C36: when buffer k, whose rate was raised while it sounded, has played to its
\* end and buffer k+1 is in the cache, the source of k+1 starts at that moment:
\* no silence separates them.
C36_NoSilenceAfterSpeedUp ==
  [][\A l \in DOMAIN loops :
       (NextFromCache(l) /\ RaisedWhileSounding(l)) =>
         \A k \in NewSources : loops'[k].startIn = 0]_vars

\* C37: the in-flight set is the set of indices that have a synthesis request
\* outstanding under the selected voice and for the loaded text.
C37_InFlightIsOutstanding ==
  processingChunks = {i \in 0..(textChunks.len - 1) : Outstanding(i) > 0}

\* The click whose timer is due was followed by an operation that bumps the
\* session: a later click left its own timer, or the last operation is no click.
TimerSuperseded == timers # <<>> /\ (Len(timers) > 1 \/ lastOp.op # "seek")

\* C38: the deferred start of a superseded click begins no loop and changes no
\* state; after a load it starts no playback of the new source.
C38_DeferredStartFenced ==
  [][(TimerSuperseded /\ timerFired) =>
       /\ Begun = {}
       /\ NewSources = {}
       /\ UNCHANGED <<status, currentChunkIndex, playbackSessionId, loops, requests,
                      processingChunks, nextStartTime, audioBuffers, activeSource,
                      resumeOffset, error>>]_vars

\* C39: while status is paused a position is held: currentIndex is the index of
\* a chunk.  A voice change or a paragraph click made while idle does not leave
\* status paused with currentIndex -1.
C39_PausedHoldsPosition ==
  status = "paused" =>
    (0 <= currentChunkIndex /\ currentChunkIndex < textChunks.len)
=============================================================================
